---- MODULE Spec2Model ----
(***************************************************************************)
(* Tag deduplication pipeline of aparts/src/deduplication.py.              *)
(*                                                                         *)
(* A dataframe is a record [columns, data]: columns is the ordered         *)
(* sequence of column names (pandas' dataframe.columns), data maps every   *)
(* column name to its Series, a sequence of cell values indexed by row.    *)
(* Tags are strings; Len and SubSeq give Python's len and slicing.         *)
(***************************************************************************)
EXTENDS Naturals, Sequences, FiniteSets, TLC

VARIABLES
    pc,                      \* position of the function under analysis
    dataframe,               \* argument of deduplicate_dataframe / manual_deduplication
    deduplicated_dataframe,  \* the local working copy of both functions
    mode,                    \* argument of deduplicate_dataframe
    pair,                    \* loop variable of deduplicate_dataframe / manual_deduplication
    tuples,                  \* argument of manual_deduplication
    position,                \* index in tuples of the pair the operator is asked about
    answer,                  \* manual_deduplication: the last response, lower-cased
    printed,                 \* manual_deduplication: the messages printed so far
    word_list,               \* argument of deduplicate_tag_conjugations
    returned,                \* what the first call of deduplicate_tag_conjugations returned
    rerun,                   \* what a second call, on the first call's result, returned
    matrix,                  \* merge_similar_tags_from_dataframe: the generated matrix
    manual,                  \* merge_similar_tags_from_dataframe: the manual flag
    grouped_tags,            \* the groups found on matrix in phase 1
    deduplicated_tags,       \* phase 1: the duplicate pairs
    matrix_deduplicated,     \* phase 1: the strictly merged matrix
    grouped_tags_control,    \* phase 2: the groups found on matrix_deduplicated
    potential_duplicates,    \* phase 2: the pairs handed to the lenient merge
    matrix_deduplicated_lenient,  \* phase 2: the leniently merged matrix
    remaining_duplicate_tuple,    \* phase 3: the pairs offered to the operator
    matrix_deduplicated_manual,   \* the matrix the function returns
    filtered_dataframe,      \* drop_unique_columns: the copy it filters and returns
    explained_variance_ratio,         \* plot_pca_tags: pca.explained_variance_ratio_
    cumulative_variance,              \* plot_pca_tags: its cumulative sum
    num_components_for_80_variance,   \* plot_pca_tags / retrieve_clusters: k80
    num_components_for_95_variance,   \* plot_pca_tags: k95
    Dataframe_filtered,               \* retrieve_clusters: the columns of the filtered matrix
    scores_pca,                       \* retrieve_clusters: the columns of pca.transform(...)
    Dataframe_filtered_kmeans         \* retrieve_clusters: the columns of the returned frame

mergerVars == <<dataframe, deduplicated_dataframe, mode, pair>>
manualVars == <<tuples, position, answer, printed>>
conjVars == <<word_list, returned, rerun>>
orchVars == <<matrix, manual, grouped_tags, deduplicated_tags, matrix_deduplicated,
              grouped_tags_control, potential_duplicates, matrix_deduplicated_lenient,
              remaining_duplicate_tuple, matrix_deduplicated_manual>>
pcaVars == <<explained_variance_ratio, cumulative_variance,
             num_components_for_80_variance, num_components_for_95_variance,
             Dataframe_filtered, scores_pca, Dataframe_filtered_kmeans>>
vars == <<pc, mergerVars, manualVars, conjVars, orchVars, filtered_dataframe, pcaVars>>

(***************************************************************************)
(* Bounds of the model.                                                    *)
(***************************************************************************)
NRows == 2      \* rows (documents) of a generated matrix
MaxVal == 1     \* largest cell value of a generated matrix

NotUsed == "not used"

\* The variables of plot_pca_tags and retrieve_clusters are not in use.
PcaNotUsed ==
    /\ explained_variance_ratio = NotUsed /\ cumulative_variance = NotUsed
    /\ num_components_for_80_variance = NotUsed
    /\ num_components_for_95_variance = NotUsed
    /\ Dataframe_filtered = NotUsed /\ scores_pca = NotUsed
    /\ Dataframe_filtered_kmeans = NotUsed

\* The variables of merge_similar_tags_from_dataframe are not in use.
OrchNotUsed ==
    /\ matrix = NotUsed /\ manual = NotUsed /\ grouped_tags = NotUsed
    /\ deduplicated_tags = NotUsed /\ matrix_deduplicated = NotUsed
    /\ grouped_tags_control = NotUsed
    /\ potential_duplicates = NotUsed /\ matrix_deduplicated_lenient = NotUsed
    /\ remaining_duplicate_tuple = NotUsed /\ matrix_deduplicated_manual = NotUsed
    /\ filtered_dataframe = NotUsed

(***************************************************************************)
(* Matrices.                                                               *)
(***************************************************************************)
TagColumns == <<"grow", "growth", "grew">>
TagSet == {TagColumns[i] : i \in DOMAIN TagColumns}
RowIndex == 1..NRows
Vectors == [RowIndex -> 0..MaxVal]
InputMatrices == {[columns |-> TagColumns, data |-> d] : d \in [TagSet -> Vectors]}

\* The strict-merge example of the specification: source [1,0,2], sink [0,5,0].
ExampleMatrix ==
    [columns |-> <<"grow", "growth">>,
     data |-> ("grow" :> <<1, 0, 2>>) @@ ("growth" :> <<0, 5, 0>>)]

\* `name in dataframe.columns`
HasColumn(df, name) == \E i \in DOMAIN df.columns : df.columns[i] = name

\* dataframe.drop(columns=[name], inplace=True)
DropColumn(df, name) ==
    [columns |-> SelectSeq(df.columns, LAMBDA c : c # name),
     data |-> [c \in (DOMAIN df.data) \ {name} |-> df.data[c]]]

\* A plausible slip: dataframe[:] = series, the series goes to every column.
SetColumnEvery(df, name, series) ==
    [df EXCEPT !.data = [c \in DOMAIN df.data |-> series]]

\* dataframe[name] = series, for a column that exists
SetColumn(df, name, series) == [df EXCEPT !.data[name] = series]

(***************************************************************************)
(* deduplicate_dataframe                                                   *)
(***************************************************************************)
\* A plausible slip: `and` for `or` in the presence test.
PairSkippedAnd(df, source, sink) == ~HasColumn(df, source) /\ ~HasColumn(df, sink)

\* if source not in columns or sink not in columns: continue
PairSkipped(df, source, sink) == ~HasColumn(df, source) \/ ~HasColumn(df, sink)

\* A plausible slip: the strict merge sums the two columns.
StrictCopySum(sourcedata, sinkdata) ==
    [i \in DOMAIN sourcedata |-> sinkdata[i] + sourcedata[i]]

\* for i in range(len(sourcedata)): if sourcedata[i] > 0: sinkdata[i] = sourcedata[i]
StrictCopy(sourcedata, sinkdata) ==
    [i \in DOMAIN sourcedata |->
        IF sourcedata[i] > 0 THEN sourcedata[i] ELSE sinkdata[i]]

\* A plausible slip: only the first row is compared.
SeriesEqualsFirstRow(sourcedata, sinkdata) ==
    \/ DOMAIN sourcedata = {}
    \/ sourcedata[1] = sinkdata[1]

\* sourcedata.equals(sinkdata): same length, same value in every row
SeriesEquals(sourcedata, sinkdata) ==
    /\ DOMAIN sourcedata = DOMAIN sinkdata
    /\ \A i \in DOMAIN sourcedata : sourcedata[i] = sinkdata[i]

\* The body of the loop for a pair whose two columns are present.
MergePair(df, source, sink, m) ==
    LET sourcedata == df.data[source]
        sinkdata == df.data[sink]
    IN  IF m = "strict"
        THEN DropColumn(SetColumn(df, sink, StrictCopy(sourcedata, sinkdata)), source)
        ELSE IF m = "lenient" /\ SeriesEquals(sourcedata, sinkdata)
        THEN DropColumn(df, source)
        ELSE df

\* The whole function on a pair list (as the orchestrator calls it).
RECURSIVE DeduplicateFrom(_, _, _)
DeduplicateFrom(df, pairs_list, m) ==
    IF pairs_list = <<>> THEN df
    ELSE LET source == Head(pairs_list)[1]
             sink == Head(pairs_list)[2]
         IN  DeduplicateFrom(
                 IF PairSkipped(df, source, sink) THEN df
                 ELSE MergePair(df, source, sink, m),
                 Tail(pairs_list), m)

DeduplicateDataframe(df, pairs_list, m) == DeduplicateFrom(df, pairs_list, m)

\* Pairs a caller can pass: two different tags.  A tag is a column of the
\* matrix, a column an earlier pair removed, or (grew, for the example matrix)
\* never was a column.
Pairs == {p \in TagSet \X TagSet : p[1] # p[2]}

MergerInit ==
    /\ pc = "loop"
    /\ dataframe \in InputMatrices \cup {ExampleMatrix}
    /\ deduplicated_dataframe = dataframe      \* dataframe.copy()
    /\ mode \in {"strict", "lenient"}
    /\ pair = <<>>
    /\ tuples = NotUsed /\ position = NotUsed /\ answer = NotUsed /\ printed = NotUsed
    /\ word_list = NotUsed /\ returned = NotUsed /\ rerun = NotUsed
    /\ OrchNotUsed
    /\ PcaNotUsed

\* One iteration of `for pair in pairs_list`.  pairs_list is only read, front
\* to back, so its next element is drawn when the loop reaches it.
MergerIterate ==
    /\ pc = "loop"
    /\ \E p \in Pairs :
        /\ pair' = p
        /\ IF PairSkipped(deduplicated_dataframe, p[1], p[2])
           THEN /\ pc' = "loop"
                /\ UNCHANGED deduplicated_dataframe
           ELSE IF ~HasColumn(deduplicated_dataframe, p[1])
                   \/ ~HasColumn(deduplicated_dataframe, p[2])
           THEN /\ pc' = "KeyError"     \* deduplicated_dataframe[missing]
                /\ UNCHANGED deduplicated_dataframe
           ELSE /\ pc' = "loop"
                /\ deduplicated_dataframe' =
                       MergePair(deduplicated_dataframe, p[1], p[2], mode)
    /\ UNCHANGED <<pcaVars, dataframe, mode, manualVars, conjVars, orchVars, filtered_dataframe>>

\* `return deduplicated_dataframe` once the list is exhausted.
MergerReturn ==
    /\ pc = "loop"
    /\ pc' = "returned"
    /\ UNCHANGED <<pcaVars, mergerVars, manualVars, conjVars, orchVars, filtered_dataframe>>

MergerNext == MergerIterate \/ MergerReturn

SpecMerger == MergerInit /\ [][MergerNext]_vars

\* One iteration of the loop of deduplicate_dataframe took place.
MergerIterated == pc = "loop" /\ pc' # "returned" /\ pair' \in Pairs

\* C2: in mode "strict", a pair whose two columns are present leaves, in every
\* row, the old source value in the sink where that value is positive and the
\* old sink value elsewhere (an overwrite, not a sum), and the source column is
\* removed, whether or not the two columns conflicted.
C2_StrictOverwrites ==
    [][(/\ MergerIterated
        /\ mode = "strict"
        /\ HasColumn(deduplicated_dataframe, pair'[1])
        /\ HasColumn(deduplicated_dataframe, pair'[2]))
       => LET source == pair'[1]
              sink == pair'[2]
              old == deduplicated_dataframe.data
          IN  /\ pc' = "loop"
              /\ ~HasColumn(deduplicated_dataframe', source)
              /\ source \notin DOMAIN deduplicated_dataframe'.data
              /\ HasColumn(deduplicated_dataframe', sink)
              /\ DOMAIN deduplicated_dataframe'.data[sink] = DOMAIN old[sink]
              /\ \A i \in DOMAIN old[sink] :
                    deduplicated_dataframe'.data[sink][i] =
                        IF old[source][i] > 0 THEN old[source][i] ELSE old[sink][i]
      ]_vars

\* C2 witness: the example of the specification, source [1,0,2] merged into
\* sink [0,5,0], has left sink [1,5,2] as the only column.
C2_Witness ==
    /\ mode = "strict"
    /\ dataframe = ExampleMatrix
    /\ pair = <<"grow", "growth">>
    /\ deduplicated_dataframe.columns = <<"growth">>
    /\ deduplicated_dataframe.data["growth"] = <<1, 5, 2>>

\* C3: in mode "lenient", a pair whose two columns are present deletes the
\* source column exactly when the two columns agree in every row; the sink
\* keeps its values, and when the columns differ the matrix is unchanged.
C3_LenientDropsIffIdentical ==
    [][(/\ MergerIterated
        /\ mode = "lenient"
        /\ HasColumn(deduplicated_dataframe, pair'[1])
        /\ HasColumn(deduplicated_dataframe, pair'[2]))
       => LET source == pair'[1]
              sink == pair'[2]
              old == deduplicated_dataframe.data
              identical == \A i \in DOMAIN old[source] : old[source][i] = old[sink][i]
          IN  /\ pc' = "loop"
              /\ ~HasColumn(deduplicated_dataframe', source) <=> identical
              /\ HasColumn(deduplicated_dataframe', sink)
              /\ deduplicated_dataframe'.data[sink] = old[sink]
              /\ ~identical => deduplicated_dataframe' = deduplicated_dataframe
      ]_vars

\* C3 witness: a lenient merge has removed a source column that had a
\* positive entry while another column, differing from its partner, stayed.
C3_Witness ==
    /\ mode = "lenient"
    /\ pc = "loop"
    /\ pair # <<>>
    /\ Len(dataframe.columns) = 3
    /\ Len(deduplicated_dataframe.columns) = 2
    /\ ~HasColumn(deduplicated_dataframe, pair[1])
    /\ \E i \in DOMAIN dataframe.data[pair[1]] : dataframe.data[pair[1]][i] > 0
    /\ \E c \in DOMAIN deduplicated_dataframe.data :
          deduplicated_dataframe.data[c] # deduplicated_dataframe.data[pair[2]]

\* C4: in either mode, a pair naming a column that is absent from the current
\* matrix (never present, or removed by an earlier pair) raises nothing,
\* leaves the matrix exactly as it was and leaves the loop running.
C4_AbsentPairSkipped ==
    [][(/\ MergerIterated
        /\ \/ ~HasColumn(deduplicated_dataframe, pair'[1])
           \/ ~HasColumn(deduplicated_dataframe, pair'[2]))
       => /\ pc' = "loop"
          /\ deduplicated_dataframe' = deduplicated_dataframe
      ]_vars

\* C4 witness: the last pair named two columns that earlier pairs had removed
\* (a merge would have left its sink in place, so this pair was skipped), and
\* the loop is still running.
C4_Witness ==
    /\ pc = "loop"
    /\ pair # <<>>
    /\ HasColumn(dataframe, pair[1])
    /\ HasColumn(dataframe, pair[2])
    /\ ~HasColumn(deduplicated_dataframe, pair[1])
    /\ ~HasColumn(deduplicated_dataframe, pair[2])
    /\ Len(deduplicated_dataframe.columns) = 1

(***************************************************************************)
(* group_tags_by_dissimilarity and generate_tuple_combinations             *)
(***************************************************************************)
\* clustering.fit_predict: one cluster label per column.  The labels are the
\* result of scikit-learn's AgglomerativeClustering; any labelling is drawn.
ClusterLabelings(n) == [1..n -> 0..(n - 1)]

\* grouped_columns[cluster_id], named: the tags of one cluster in column order
ClusterMembers(clusters, tag_names, cluster_id) ==
    LET RECURSIVE From(_)
        From(col_idx) ==
            IF col_idx > Len(tag_names) THEN <<>>
            ELSE (IF clusters[col_idx] = cluster_id
                  THEN <<tag_names[col_idx]>> ELSE <<>>) \o From(col_idx + 1)
    IN  From(1)

\* The clusters in the order of their first column (dict insertion order),
\* keeping those with 2 or more tags.
GroupTags(clusters, tag_names) ==
    LET RECURSIVE From(_)
        From(col_idx) ==
            IF col_idx > Len(tag_names) THEN <<>>
            ELSE LET group == ClusterMembers(clusters, tag_names, clusters[col_idx])
                     first == \A j \in 1..(col_idx - 1) : clusters[j] # clusters[col_idx]
                 IN  (IF first /\ Len(group) >= 2 THEN <<group>> ELSE <<>>)
                     \o From(col_idx + 1)
    IN  From(1)

\* Every result group_tags_by_dissimilarity can give for these columns.
Groupings(tag_names) ==
    {GroupTags(clusters, tag_names) : clusters \in ClusterLabelings(Len(tag_names))}

\* A plausible slip: permutations(item, 2), every pair in both orders.
RECURSIVE Permutations2(_)
Permutations2(item) ==
    IF Len(item) < 2 THEN <<>>
    ELSE [k \in 1..(Len(item) - 1) |-> <<item[1], item[k + 1]>>]
         \o [k \in 1..(Len(item) - 1) |-> <<item[k + 1], item[1]>>]
         \o Permutations2(Tail(item))

\* list(combinations(item, 2)): the pairs of positions i < j, in lexicographic order
RECURSIVE Combinations2(_)
Combinations2(item) ==
    IF Len(item) < 2 THEN <<>>
    ELSE [k \in 1..(Len(item) - 1) |-> <<item[1], item[k + 1]>>]
         \o Combinations2(Tail(item))

RECURSIVE GenerateTupleCombinations(_)
GenerateTupleCombinations(nested_list) ==
    IF nested_list = <<>> THEN <<>>
    ELSE Combinations2(Head(nested_list)) \o GenerateTupleCombinations(Tail(nested_list))

(***************************************************************************)
(* manual_deduplication                                                    *)
(***************************************************************************)
\* Tags of equal length, none a prefix of another: a group of them reaches
\* the operator whole.
ManualColumns == <<"grow", "grew", "tree">>
ManualMatrices ==
    {[columns |-> ManualColumns, data |-> d] :
        d \in [{ManualColumns[i] : i \in DOMAIN ManualColumns} ->
                  {v \in [RowIndex -> {0, 1}] : \E i \in RowIndex : v[i] > 0}]}

\* What the operator can type, and str.lower() of it.
Typed == {"y", "Y", "n", "N", "q", "Q", "yes", ""}
Lower(text) ==
    CASE text = "Y" -> "y"
      [] text = "N" -> "n"
      [] text = "Q" -> "q"
      [] OTHER -> text

\* A plausible slip: the manual merge overwrites like the strict merge.
ManualAddOverwrite(sinkdata, sourcedata) ==
    [i \in DOMAIN sinkdata |-> IF sourcedata[i] > 0 THEN sourcedata[i] ELSE sinkdata[i]]

\* sinkdata.add(sourcedata, fill_value=0)
ManualAdd(sinkdata, sourcedata) ==
    [i \in DOMAIN sinkdata |-> sinkdata[i] + sourcedata[i]]

\* The "y" branch.
ManualMerge(df, source, sink) ==
    DropColumn(SetColumn(df, sink, ManualAdd(df.data[sink], df.data[source])), source)

\* The for loop from the pair after `from` to the next input(): the index of
\* the first later pair whose two columns are present, 0 when there is none.
NextPrompt(df, queue, from) ==
    LET later == {k \in (from + 1)..Len(queue) :
                     HasColumn(df, queue[k][1]) /\ HasColumn(df, queue[k][2])}
    IN  IF later = {} THEN 0
        ELSE CHOOSE k \in later : \A j \in later : k <= j

ManualInit ==
    /\ pc = "call"
    /\ dataframe \in ManualMatrices
    /\ \E groups \in Groupings(ManualColumns) :
          tuples = GenerateTupleCombinations(groups)
    /\ deduplicated_dataframe = NotUsed
    /\ mode = NotUsed
    /\ pair = <<>>
    /\ position = 0
    /\ answer = NotUsed
    /\ printed = <<>>
    /\ word_list = NotUsed /\ returned = NotUsed /\ rerun = NotUsed
    /\ OrchNotUsed
    /\ PcaNotUsed

\* Control runs on to the next input() or to the return.
ManualResume(df, from) ==
    LET k == NextPrompt(df, tuples, from)
    IN  IF k = 0
        THEN pc' = "returned" /\ UNCHANGED <<position, pair>>
        ELSE pc' = "input" /\ position' = k /\ pair' = tuples[k]

\* The call, up to the first prompt.
ManualCall ==
    /\ pc = "call"
    /\ deduplicated_dataframe' = dataframe     \* dataframe.copy()
    /\ ManualResume(dataframe, 0)
    /\ UNCHANGED <<pcaVars, dataframe, mode, tuples, answer, printed, conjVars, orchVars, filtered_dataframe>>

\* The operator answers the prompt for tuples[position].
ManualAnswer ==
    /\ pc = "input"
    /\ \E text \in Typed :
        /\ answer' = Lower(text)
        /\ CASE answer' = "y" ->
                /\ printed' = Append(printed, "Merged")
                /\ deduplicated_dataframe' =
                       ManualMerge(deduplicated_dataframe, pair[1], pair[2])
                /\ ManualResume(deduplicated_dataframe', position)
             [] answer' = "n" ->          \* break
                /\ pc' = "returned"
                /\ UNCHANGED <<deduplicated_dataframe, position, pair, printed>>
             [] answer' = "q" ->          \* return deduplicated_dataframe
                /\ pc' = "returned"
                /\ UNCHANGED <<deduplicated_dataframe, position, pair, printed>>
             [] OTHER ->
                /\ printed' = Append(printed, "Input invalid")
                /\ UNCHANGED deduplicated_dataframe
                /\ ManualResume(deduplicated_dataframe, position)
    /\ UNCHANGED <<pcaVars, dataframe, mode, tuples, conjVars, orchVars, filtered_dataframe>>

ManualNext == ManualCall \/ ManualAnswer

SpecManual == ManualInit /\ [][ManualNext]_vars

\* C7: a response that is none of "y", "n", "q" shows a message, leaves the
\* matrix unchanged, and the next prompt is for the same pair: the queue does
\* not advance until the current pair has had a valid response.
C7_InvalidResponseReprompts ==
    [][(pc = "input" /\ answer' \notin {"y", "n", "q"})
       => /\ printed' # printed
          /\ deduplicated_dataframe' = deduplicated_dataframe
          /\ pc' = "input"
          /\ position' = position
          /\ pair' = pair
      ]_vars

\* C8: a skip ("n") leaves the matrix unchanged and the next pair of the queue
\* whose two columns are present is then offered; only "q" stops the queue.
C8_SkipOffersNextPair ==
    [][(pc = "input" /\ answer' = "n")
       => /\ deduplicated_dataframe' = deduplicated_dataframe
          /\ LET k == NextPrompt(deduplicated_dataframe, tuples, position)
             IN  IF k = 0 THEN pc' = "returned"
                 ELSE pc' = "input" /\ position' = k /\ pair' = tuples[k]
      ]_vars

\* C9: a merge ("y") sets the sink to old sink + old source in every row,
\* removes the source column and touches no other column; an abort ("q")
\* returns at once with the matrix as merged so far; nothing is offered or
\* applied once the function has returned.
C9_MergeSumsAbortReturns ==
    [][/\ pc # "returned"
       /\ (pc = "input" /\ answer' = "y")
          => LET source == pair[1]
                 sink == pair[2]
                 old == deduplicated_dataframe.data
             IN  /\ deduplicated_dataframe'.columns =
                        SelectSeq(deduplicated_dataframe.columns, LAMBDA c : c # source)
                 /\ DOMAIN deduplicated_dataframe'.data = (DOMAIN old) \ {source}
                 /\ \A i \in DOMAIN old[sink] :
                        deduplicated_dataframe'.data[sink][i] = old[sink][i] + old[source][i]
                 /\ \A c \in (DOMAIN old) \ {source, sink} :
                        deduplicated_dataframe'.data[c] = old[c]
       /\ (pc = "input" /\ answer' = "q")
          => /\ pc' = "returned"
             /\ deduplicated_dataframe' = deduplicated_dataframe
      ]_vars

\* C9 witness: the operator merged the first pair (a sum produced a 2) and
\* aborted at a later pair, whose two columns are both still in the result.
C9_Witness ==
    /\ pc = "returned"
    /\ answer = "q"
    /\ position > 1
    /\ Len(deduplicated_dataframe.columns) = Len(dataframe.columns) - 1
    /\ HasColumn(deduplicated_dataframe, pair[1])
    /\ HasColumn(deduplicated_dataframe, pair[2])
    /\ \E c \in DOMAIN deduplicated_dataframe.data :
          \E i \in DOMAIN deduplicated_dataframe.data[c] :
              deduplicated_dataframe.data[c][i] = 2

(***************************************************************************)
(* deduplicate_tag_conjugations                                            *)
(*                                                                         *)
(* An element of word_list is a string or a list (isinstance tells them    *)
(* apart): [kind |-> "str", val |-> tag] or [kind |-> "list", val |-> l].  *)
(***************************************************************************)
MaxWords == 3     \* longest generated word list or group
MaxGroups == 2    \* most groups of a generated nested list

Str(tag) == [kind |-> "str", val |-> tag]
List(items) == [kind |-> "list", val |-> items]
Strs(tags) == [i \in DOMAIN tags |-> Str(tags[i])]
Group(tags) == List(Strs(tags))

\* A plausible slip: the sort key tells no word from another, the list keeps
\* its order.
PyLenIgnored(word) == 0

\* len(word), of a string or of a list
PyLen(word) == Len(word.val)

\* A plausible slip: sorted(word_list, key=len)[::-1], which reverses ties.
RECURSIVE SortedWordsAscendingReversed(_)
SortedWordsAscendingReversed(words) ==
    IF words = <<>> THEN <<>>
    ELSE LET rest == SortedWordsAscendingReversed(Tail(words))
             word == Head(words)
             before == SelectSeq(rest, LAMBDA w : PyLen(w) >= PyLen(word))
             after == SelectSeq(rest, LAMBDA w : PyLen(w) < PyLen(word))
         IN  before \o <<word>> \o after

\* sorted(word_list, key=len, reverse=True): longest first, and stable (words
\* of equal length keep the order they have in word_list).
RECURSIVE SortedWords(_)
SortedWords(words) ==
    IF words = <<>> THEN <<>>
    ELSE LET rest == SortedWords(Tail(words))
             word == Head(words)
             before == SelectSeq(rest, LAMBDA w : PyLen(w) > PyLen(word))
             after == SelectSeq(rest, LAMBDA w : PyLen(w) <= PyLen(word))
         IN  before \o <<word>> \o after

\* text[:n]
SliceTo(text, n) == SubSeq(text, 1, IF n < Len(text) THEN n ELSE Len(text))

\* text.startswith(prefix)
StartsWith(text, prefix) ==
    /\ Len(prefix) <= Len(text)
    /\ SubSeq(text, 1, Len(prefix)) = prefix

\* A plausible slip: the two strings are compared whole.
IsPrefixMatchWhole(word, existing_prefix) == word = existing_prefix

\* word.startswith(existing_prefix[:len(word)])
IsPrefixMatch(word, existing_prefix) ==
    StartsWith(word, SliceTo(existing_prefix, Len(word)))

\* return deleted_pairs if method == "pairs" else deduplicated
ConjReturn(method, outcome) ==
    IF method = "pairs" THEN outcome.deleted_pairs ELSE outcome.deduplicated

\* The loop over sorted_words.  processed_prefixes is a Python set of strings:
\* `next(...)` takes the first match in the set's iteration order, which the
\* string hash decides, so every match is a possible sink.  The result is the
\* set of the outcomes [deduplicated, deleted_pairs] the call can end with.
RECURSIVE ConjOutcomes(_, _, _)
ConjOutcomes(words, method, deleted_pairs) ==
    LET sorted_words == SortedWords(words)
        RECURSIVE Walk(_, _, _, _)
        Walk(k, processed_prefixes, deduplicated, pairs) ==
            IF k > Len(sorted_words)
            THEN {[deduplicated |-> deduplicated, deleted_pairs |-> pairs]}
            ELSE LET word == sorted_words[k] IN
                 IF word.kind = "list"
                 THEN UNION {Walk(k + 1, processed_prefixes,
                                  Append(deduplicated, List(ConjReturn(method, sub))),
                                  sub.deleted_pairs) :
                                sub \in ConjOutcomes(word.val, method, pairs)}
                 ELSE LET matches == {existing_prefix \in processed_prefixes :
                                         IsPrefixMatch(word.val, existing_prefix)}
                      IN  IF matches # {}
                          THEN UNION {Walk(k + 1, processed_prefixes, deduplicated,
                                           Append(pairs, <<word.val, sink>>)) :
                                         sink \in matches}
                          ELSE Walk(k + 1, processed_prefixes \cup {word.val},
                                    Append(deduplicated, word), pairs)
    IN  Walk(1, {}, <<>>, deleted_pairs)

\* The values a call with deleted_pairs=None can return.
DeduplicateTagConjugations(words, method) ==
    {ConjReturn(method, outcome) : outcome \in ConjOutcomes(words, method, <<>>)}

\* Inputs: flat lists of tags, and lists of disjoint groups of distinct tags
\* (what group_tags_by_dissimilarity hands over).
Vocabulary == {"gr", "grow", "grew", "grows", "growth"}
TagLists(lo, hi) == UNION {[1..n -> Vocabulary] : n \in lo..hi}
Distinct(tags) == \A i, j \in DOMAIN tags : i # j => tags[i] # tags[j]
TagGroups == {g \in TagLists(2, MaxWords) : Distinct(g)}
Disjoint(g, h) == \A i \in DOMAIN g, j \in DOMAIN h : g[i] # h[j]
\* The lists of n pairwise disjoint groups.
RECURSIVE GroupListsOf(_)
GroupListsOf(n) ==
    IF n = 0 THEN {<<>>}
    ELSE {Append(gs, g) : <<gs, g>> \in
             {x \in GroupListsOf(n - 1) \X TagGroups :
                 \A i \in DOMAIN x[1] : Disjoint(x[1][i], x[2])}}
GroupLists == UNION {GroupListsOf(n) : n \in 0..MaxGroups}

ConjInit ==
    /\ pc = "call"
    /\ \/ \E tags \in TagLists(0, MaxWords) : word_list = Strs(tags)
       \/ \E groups \in GroupLists :
             word_list = [i \in DOMAIN groups |-> Group(groups[i])]
    /\ returned = NotUsed
    /\ rerun = NotUsed
    /\ dataframe = NotUsed /\ deduplicated_dataframe = NotUsed
    /\ mode = NotUsed /\ pair = NotUsed
    /\ tuples = NotUsed /\ position = NotUsed /\ answer = NotUsed /\ printed = NotUsed
    /\ OrchNotUsed
    /\ PcaNotUsed

\* deduplicate_tag_conjugations(word_list, "")
ConjCollapse ==
    /\ pc = "call"
    /\ returned' \in DeduplicateTagConjugations(word_list, "")
    /\ pc' = "collapsed"
    /\ UNCHANGED <<pcaVars, word_list, rerun, mergerVars, manualVars, orchVars, filtered_dataframe>>

\* deduplicate_tag_conjugations(word_list, "pairs")
ConjPairs ==
    /\ pc = "call"
    /\ returned' \in DeduplicateTagConjugations(word_list, "pairs")
    /\ pc' = "paired"
    /\ UNCHANGED <<pcaVars, word_list, rerun, mergerVars, manualVars, orchVars, filtered_dataframe>>

\* The collapsed list is run through the function again, in collapse mode.
ConjRerunCollapse ==
    /\ pc = "collapsed"
    /\ rerun' \in DeduplicateTagConjugations(returned, "")
    /\ pc' = "collapsed again"
    /\ UNCHANGED <<pcaVars, word_list, returned, mergerVars, manualVars, orchVars, filtered_dataframe>>

\* The collapsed list is run through the function again, in pairs mode.
ConjRerunPairs ==
    /\ pc = "collapsed"
    /\ rerun' \in DeduplicateTagConjugations(returned, "pairs")
    /\ pc' = "collapsed then paired"
    /\ UNCHANGED <<pcaVars, word_list, returned, mergerVars, manualVars, orchVars, filtered_dataframe>>

ConjNext == ConjCollapse \/ ConjPairs \/ ConjRerunCollapse \/ ConjRerunPairs

SpecConjugation == ConjInit /\ [][ConjNext]_vars

\* C5 as stated: a second collapse of a collapsed list returns the identical
\* list (same elements, order and nesting), and pairs mode on it finds nothing.
C5_CollapseIdempotent ==
    /\ pc = "collapsed again" => rerun = returned
    /\ pc = "collapsed then paired" => rerun = <<>>

Bijections(n) == {f \in [1..n -> 1..n] : \A i, j \in 1..n : i # j => f[i] # f[j]}

\* C5 (amended): pairs mode on a collapsed list finds nothing; a second
\* collapse returns the same elements with the same nesting, each group with
\* its tags in the same order; the list is identical when it is flat, or when
\* its groups already stand in non-increasing size, and otherwise differs only
\* in the order of its groups, which are re-sorted by size.
C5_CollapseIdempotentUpToGroupOrder ==
    /\ pc = "collapsed then paired" => rerun = <<>>
    /\ pc = "collapsed again" =>
          /\ Len(rerun) = Len(returned)
          /\ \E f \in Bijections(Len(returned)) :
                \A i \in DOMAIN returned : rerun[i] = returned[f[i]]
          /\ \A i \in 1..(Len(rerun) - 1) : PyLen(rerun[i]) >= PyLen(rerun[i + 1])
          /\ (\A i \in DOMAIN returned : returned[i].kind = "str") => rerun = returned
          /\ (\A i \in 1..(Len(returned) - 1) :
                 PyLen(returned[i]) >= PyLen(returned[i + 1])) => rerun = returned

\* C5 witness: a list of two groups was collapsed, the first group lost a tag,
\* and the second collapse returned the two groups in the other order.
C5_Witness ==
    /\ pc = "collapsed again"
    /\ Len(returned) = 2
    /\ PyLen(returned[1]) < PyLen(word_list[1])
    /\ rerun # returned
    /\ rerun[1] = returned[2]
    /\ rerun[2] = returned[1]

(***************************************************************************)
(* merge_similar_tags_from_dataframe                                       *)
(***************************************************************************)
\* generate_binary_item_matrix(...)[0]: documents by tags, entries 0 or 1.
BinaryMatrices ==
    {[columns |-> TagColumns, data |-> d] : d \in [TagSet -> [RowIndex -> {0, 1}]]}

\* drop_0_columns: the columns whose values are all zero are dropped, in place.
RECURSIVE DropAll(_, _)
DropAll(df, names) ==
    IF names = <<>> THEN df ELSE DropAll(DropColumn(df, Head(names)), Tail(names))

\* A plausible slip: .any() for .all(), every column with a zero is dropped.
Drop0ColumnsAny(df) ==
    LET zero_columns ==
            SelectSeq(df.columns,
                      LAMBDA c : \E i \in DOMAIN df.data[c] : df.data[c][i] = 0)
    IN  DropAll(df, zero_columns)

\* zero_columns = dataframe.columns[(dataframe == 0).all()]; drop them
Drop0Columns(df) ==
    LET zero_columns ==
            SelectSeq(df.columns,
                      LAMBDA c : \A i \in DOMAIN df.data[c] : df.data[c][i] = 0)
    IN  DropAll(df, zero_columns)

\* The groups as deduplicate_tag_conjugations receives them, and its
\* collapse-mode result as a list of lists of tags.
AsWordList(groups) == [i \in DOMAIN groups |-> Group(groups[i])]
AsTagLists(words) ==
    [i \in DOMAIN words |-> [j \in DOMAIN words[i].val |-> words[i].val[j].val]]

\* AgglomerativeClustering.fit_predict needs at least two samples (columns).
CanCluster(df) == Len(df.columns) >= 2

\* calculate_tag_similarity(df, method, threshold)[0], for the groups found.
CalculateTagSimilarity(groups, method) ==
    DeduplicateTagConjugations(AsWordList(groups), method)

\* [item for item in deduplicated_tags_remaining if len(item) > 1]
RemainingDuplicates(tag_lists) == SelectSeq(tag_lists, LAMBDA item : Len(item) > 1)

\* deduplicate_dataframe(matrix, potential_duplicates, "lenient"): the matrix
\* the lenient merge is given is `matrix`, not `matrix_deduplicated`.
LenientInput(original, strict) == original

OrchInit ==
    /\ pc = "start"
    /\ matrix \in BinaryMatrices
    /\ manual \in BOOLEAN
    /\ grouped_tags = <<>>
    /\ deduplicated_tags = <<>>
    /\ matrix_deduplicated = NotUsed
    /\ grouped_tags_control = <<>>
    /\ potential_duplicates = <<>>
    /\ matrix_deduplicated_lenient = NotUsed
    /\ remaining_duplicate_tuple = <<>>
    /\ matrix_deduplicated_manual = NotUsed
    /\ dataframe = NotUsed /\ deduplicated_dataframe = NotUsed
    /\ mode = NotUsed /\ pair = <<>>
    /\ tuples = NotUsed /\ position = 0 /\ answer = NotUsed /\ printed = <<>>
    /\ word_list = NotUsed /\ returned = NotUsed /\ rerun = NotUsed
    /\ filtered_dataframe = NotUsed
    /\ PcaNotUsed

\* Phase 1: drop_0_columns, groups, pairs, strict merge.
OrchPhase1 ==
    /\ pc = "start"
    /\ matrix' = Drop0Columns(matrix)
    /\ IF ~CanCluster(matrix')
       THEN /\ pc' = "ValueError"
            /\ UNCHANGED <<grouped_tags, deduplicated_tags, matrix_deduplicated>>
       ELSE \E groups \in Groupings(matrix'.columns) :
            \E pairs \in CalculateTagSimilarity(groups, "pairs") :
                /\ grouped_tags' = groups
                /\ deduplicated_tags' = pairs
                /\ matrix_deduplicated' = DeduplicateDataframe(matrix', pairs, "strict")
                /\ pc' = "phase 1 done"
    /\ UNCHANGED <<pcaVars, manual, grouped_tags_control, potential_duplicates,
                   matrix_deduplicated_lenient,
                   remaining_duplicate_tuple, matrix_deduplicated_manual,
                   mergerVars, manualVars, conjVars, filtered_dataframe>>

\* Phase 2: groups on the phase-1 matrix, all pairs of each collapsed group,
\* lenient merge.
OrchPhase2 ==
    /\ pc = "phase 1 done"
    /\ IF ~CanCluster(matrix_deduplicated)
       THEN /\ pc' = "ValueError"
            /\ UNCHANGED <<grouped_tags_control, potential_duplicates,
                           matrix_deduplicated_lenient>>
       ELSE \E groups \in Groupings(matrix_deduplicated.columns) :
            \E deduplicated_tags_control \in CalculateTagSimilarity(groups, "") :
                /\ grouped_tags_control' = groups
                /\ potential_duplicates' =
                       GenerateTupleCombinations(AsTagLists(deduplicated_tags_control))
                /\ matrix_deduplicated_lenient' =
                       DeduplicateDataframe(LenientInput(matrix, matrix_deduplicated),
                                            potential_duplicates', "lenient")
                /\ pc' = "phase 2 done"
    /\ UNCHANGED <<pcaVars, matrix, manual, grouped_tags, deduplicated_tags, matrix_deduplicated,
                   remaining_duplicate_tuple, matrix_deduplicated_manual,
                   mergerVars, manualVars, conjVars, filtered_dataframe>>

\* Phase 3: groups on the phase-2 matrix, the pairs of the groups that remain;
\* with manual set they go to manual_deduplication, else the matrix is returned.
OrchPhase3 ==
    /\ pc = "phase 2 done"
    /\ IF ~CanCluster(matrix_deduplicated_lenient)
       THEN /\ pc' = "ValueError"
            /\ UNCHANGED <<remaining_duplicate_tuple, matrix_deduplicated_manual,
                           dataframe, tuples>>
       ELSE \E groups \in Groupings(matrix_deduplicated_lenient.columns) :
            \E deduplicated_tags_remaining \in CalculateTagSimilarity(groups, "") :
                /\ remaining_duplicate_tuple' =
                       GenerateTupleCombinations(
                           RemainingDuplicates(AsTagLists(deduplicated_tags_remaining)))
                /\ IF manual
                   THEN /\ pc' = "call"
                        /\ dataframe' = matrix_deduplicated_lenient
                        /\ tuples' = remaining_duplicate_tuple'
                        /\ UNCHANGED matrix_deduplicated_manual
                   ELSE /\ pc' = "done"
                        /\ matrix_deduplicated_manual' = matrix_deduplicated_lenient
                        /\ UNCHANGED <<dataframe, tuples>>
    /\ UNCHANGED <<pcaVars, matrix, manual, grouped_tags, deduplicated_tags, matrix_deduplicated,
                   grouped_tags_control, potential_duplicates, matrix_deduplicated_lenient,
                   deduplicated_dataframe, mode, pair, position, answer, printed,
                   conjVars, filtered_dataframe>>

\* matrix_deduplicated_manual = manual_deduplication(...); return it.
OrchManualDone ==
    /\ pc = "returned"
    /\ manual = TRUE
    /\ matrix_deduplicated_manual' = deduplicated_dataframe
    /\ pc' = "done"
    /\ UNCHANGED <<pcaVars, matrix, manual, grouped_tags, deduplicated_tags, matrix_deduplicated,
                   grouped_tags_control, potential_duplicates, matrix_deduplicated_lenient,
                   remaining_duplicate_tuple, mergerVars, manualVars, conjVars, filtered_dataframe>>

OrchNext ==
    \/ OrchPhase1
    \/ OrchPhase2
    \/ OrchPhase3
    \/ ManualCall
    \/ ManualAnswer
    \/ OrchManualDone

SpecOrchestrator == OrchInit /\ [][OrchNext]_vars

ColumnSet(df) == {df.columns[i] : i \in DOMAIN df.columns}
AfterPhase2 == pc \in {"phase 2 done", "call", "input", "returned", "done"}

\* C1: the phases are chained: the lenient merge of phase 2 is applied to the
\* matrix the strict merge of phase 1 returned, phase 3 works on the phase-2
\* result, and so every column the strict merge deleted is absent from the
\* final matrix.
C1_PhasesChained ==
    /\ AfterPhase2 =>
          /\ matrix_deduplicated_lenient =
                 DeduplicateDataframe(matrix_deduplicated, potential_duplicates, "lenient")
          /\ ColumnSet(matrix_deduplicated_lenient) \subseteq ColumnSet(matrix_deduplicated)
    /\ pc = "done" =>
          ColumnSet(matrix_deduplicated_manual) \subseteq ColumnSet(matrix_deduplicated)

\* The scenario: phase 1 found the single group of grow, growth and grew.
ScenarioGroup ==
    /\ pc \notin {"start", "ValueError"}
    /\ Len(grouped_tags) = 1
    /\ {grouped_tags[1][i] : i \in DOMAIN grouped_tags[1]} = {"grow", "growth", "grew"}

\* C6 as stated: for the single group of grow, growth and grew, pairs mode
\* returns (grow, growth) and (grew, growth), and the strict merge leaves
\* growth as the only one of the three columns.
C6_ScenarioBothCollapse ==
    ScenarioGroup =>
        /\ deduplicated_tags = <<<<"grow", "growth">>, <<"grew", "growth">>>>
        /\ ColumnSet(matrix_deduplicated) = {"growth"}

\* C6 (amended): for that group pairs mode returns the one pair
\* (grow, growth), grew being no leading substring of growth; the strict merge
\* removes grow alone, growth takes grow's positive entries, grew is kept as
\* it was.
C6_ScenarioOnlyGrowCollapses ==
    ScenarioGroup =>
        /\ deduplicated_tags = <<<<"grow", "growth">>>>
        /\ matrix_deduplicated.columns = <<"growth", "grew">>
        /\ matrix_deduplicated.data["grew"] = matrix.data["grew"]
        /\ \A i \in DOMAIN matrix.data["growth"] :
              matrix_deduplicated.data["growth"][i] =
                  IF matrix.data["grow"][i] > 0 THEN matrix.data["grow"][i]
                  ELSE matrix.data["growth"][i]

\* C6 witness: phase 1 has run on the single group of the three tags, and grow
\* had a document that growth lacked.
C6_Witness ==
    /\ ScenarioGroup
    /\ pc = "phase 1 done"
    /\ \E i \in DOMAIN matrix.data["grow"] :
          matrix.data["grow"][i] > matrix.data["growth"][i]

(***************************************************************************)
(* count_tag_occurrence and drop_unique_columns                            *)
(***************************************************************************)
\* dataframe[column].sum()
RECURSIVE SeriesSum(_)
SeriesSum(series) ==
    IF series = <<>> THEN 0 ELSE Head(series) + SeriesSum(Tail(series))

\* counts.sort(key=lambda x: x[1], reverse=True): largest count first, stable
RECURSIVE SortedCounts(_)
SortedCounts(counts) ==
    IF counts = <<>> THEN <<>>
    ELSE LET rest == SortedCounts(Tail(counts))
             item == Head(counts)
         IN  SelectSeq(rest, LAMBDA x : x[2] > item[2]) \o <<item>>
             \o SelectSeq(rest, LAMBDA x : x[2] <= item[2])

\* count_tag_occurrence: binary_columns = dataframe.columns[1:], and of these
\* the (column, sum) with a positive sum.
CountTagOccurrence(df) ==
    LET binary_columns == IF df.columns = <<>> THEN <<>> ELSE Tail(df.columns)
        all == [k \in DOMAIN binary_columns |->
                   <<binary_columns[k], SeriesSum(df.data[binary_columns[k]])>>]
    IN  SortedCounts(SelectSeq(all, LAMBDA x : x[2] > 0))

\* for item, count in counts: if count == 1: drop item
RECURSIVE DropCounted(_, _)
DropCounted(df, counts) ==
    IF counts = <<>> THEN df
    ELSE DropCounted(IF Head(counts)[2] = 1 THEN DropColumn(df, Head(counts)[1]) ELSE df,
                     Tail(counts))

DropUniqueColumns(df) == DropCounted(df, CountTagOccurrence(df))

\* Matrices of counts with no all-zero column, the document titles being the
\* index (every column is a tag column).
CountVectors == [RowIndex -> 0..(MaxVal + 1)]
FilterMatrices ==
    {[columns |-> TagColumns, data |-> d] :
        d \in [TagSet -> {v \in CountVectors : \E i \in RowIndex : v[i] > 0}]}

FilterInit ==
    /\ pc = "call"
    /\ dataframe \in FilterMatrices
    /\ filtered_dataframe = NotUsed
    /\ deduplicated_dataframe = NotUsed /\ mode = NotUsed /\ pair = NotUsed
    /\ tuples = NotUsed /\ position = NotUsed /\ answer = NotUsed /\ printed = NotUsed
    /\ word_list = NotUsed /\ returned = NotUsed /\ rerun = NotUsed
    /\ matrix = NotUsed /\ manual = NotUsed /\ grouped_tags = NotUsed
    /\ deduplicated_tags = NotUsed /\ matrix_deduplicated = NotUsed
    /\ grouped_tags_control = NotUsed
    /\ potential_duplicates = NotUsed /\ matrix_deduplicated_lenient = NotUsed
    /\ remaining_duplicate_tuple = NotUsed /\ matrix_deduplicated_manual = NotUsed
    /\ PcaNotUsed

\* drop_unique_columns(dataframe)
FilterDropUnique ==
    /\ pc = "call"
    /\ filtered_dataframe' = DropUniqueColumns(dataframe)
    /\ pc' = "filtered"
    /\ UNCHANGED <<pcaVars, mergerVars, manualVars, conjVars, orchVars>>

FilterNext == FilterDropUnique

SpecFilter == FilterInit /\ [][FilterNext]_vars

\* The column has exactly one nonzero entry.
SingleObservation(series) ==
    Cardinality({i \in DOMAIN series : series[i] # 0}) = 1

\* C10: on a matrix of non-negative integers with no all-zero column, the
\* result lacks exactly the columns with exactly one nonzero entry, whatever
\* the entry's value and the column's position, and keeps every other column
\* with its values.
C10_DropsExactlySingleObservations ==
    pc = "filtered" =>
        \A c \in ColumnSet(dataframe) :
            /\ HasColumn(filtered_dataframe, c) <=> ~SingleObservation(dataframe.data[c])
            /\ HasColumn(filtered_dataframe, c) =>
                   filtered_dataframe.data[c] = dataframe.data[c]

(***************************************************************************)
(* drop_0_columns and drop_unique_columns, as seen by their caller         *)
(*                                                                         *)
(* dataframe is the object the caller passes; filtered_dataframe is the    *)
(* object the function returns.  drop_0_columns drops in place and returns *)
(* its argument, so both names then denote the one changed object.         *)
(***************************************************************************)
ColumnFiltersInit ==
    /\ pc = "call"
    /\ dataframe \in InputMatrices
    /\ filtered_dataframe = NotUsed
    /\ deduplicated_dataframe = NotUsed /\ mode = NotUsed /\ pair = NotUsed
    /\ tuples = NotUsed /\ position = NotUsed /\ answer = NotUsed /\ printed = NotUsed
    /\ word_list = NotUsed /\ returned = NotUsed /\ rerun = NotUsed
    /\ matrix = NotUsed /\ manual = NotUsed /\ grouped_tags = NotUsed
    /\ deduplicated_tags = NotUsed /\ matrix_deduplicated = NotUsed
    /\ grouped_tags_control = NotUsed
    /\ potential_duplicates = NotUsed /\ matrix_deduplicated_lenient = NotUsed
    /\ remaining_duplicate_tuple = NotUsed /\ matrix_deduplicated_manual = NotUsed
    /\ PcaNotUsed

\* drop_0_columns(dataframe): dataframe.drop(..., inplace=True); return dataframe
FilterDropZero ==
    /\ pc = "call"
    /\ dataframe' = Drop0Columns(dataframe)
    /\ filtered_dataframe' = dataframe'
    /\ pc' = "zeros dropped"
    /\ UNCHANGED <<pcaVars, deduplicated_dataframe, mode, pair, manualVars, conjVars, orchVars>>

ColumnFiltersNext == FilterDropZero \/ FilterDropUnique

SpecColumnFilters == ColumnFiltersInit /\ [][ColumnFiltersNext]_vars

\* The column has no nonzero entry.
NoObservation(series) == \A i \in DOMAIN series : series[i] = 0

\* C11 as stated: both filters work on a copy: after either call the matrix
\* the caller passed has every column and value it had before.
C11_FiltersLeaveArgument ==
    [][(pc = "call" /\ pc' \in {"zeros dropped", "filtered"})
       => dataframe' = dataframe]_vars

\* C11 (amended): drop_unique_columns works on a copy and leaves the matrix
\* the caller passed as it was; drop_0_columns removes the all-zero columns
\* from the caller's matrix itself and returns that same matrix, which keeps
\* exactly the columns with an observation, in order and with their values.
C11_OnlyDropUniqueCopies ==
    [][(pc = "call" /\ pc' \in {"zeros dropped", "filtered"})
       => /\ pc' = "filtered" => dataframe' = dataframe
          /\ pc' = "zeros dropped" =>
                /\ filtered_dataframe' = dataframe'
                /\ dataframe'.columns =
                       SelectSeq(dataframe.columns,
                                 LAMBDA c : ~NoObservation(dataframe.data[c]))
                /\ \A c \in ColumnSet(dataframe') :
                       dataframe'.data[c] = dataframe.data[c]
      ]_vars

\* C11 witness: drop_0_columns has returned, and the caller's matrix has lost
\* a column while another column, with an observation, is still in it.
C11_Witness ==
    /\ pc = "zeros dropped"
    /\ Len(dataframe.columns) < Len(TagColumns)
    /\ \E c \in ColumnSet(dataframe) : ~NoObservation(dataframe.data[c])

(***************************************************************************)
(* The frame of deduplicate_dataframe                                      *)
(***************************************************************************)
\* C12: deduplicate_dataframe works on a copy and touches nothing beyond the
\* pairs: in both modes every iteration leaves the matrix the caller passed
\* as it was, adds no column and no row, keeps rows and their order, and
\* every column that is neither the source nor the sink of an applied pair (a
\* pair whose two columns are present) stays, with exactly its values.
C12_MergeFrame ==
    [][MergerIterated
       => LET source == pair'[1]
              sink == pair'[2]
              applied == /\ HasColumn(deduplicated_dataframe, source)
                         /\ HasColumn(deduplicated_dataframe, sink)
          IN  /\ dataframe' = dataframe
              /\ pc' = "loop"
              /\ ColumnSet(deduplicated_dataframe') \subseteq
                     ColumnSet(deduplicated_dataframe)
              /\ \A c \in ColumnSet(deduplicated_dataframe') :
                    DOMAIN deduplicated_dataframe'.data[c] = DOMAIN dataframe.data[c]
              /\ \A c \in ColumnSet(deduplicated_dataframe) :
                    (~applied \/ c \notin {source, sink})
                    => /\ HasColumn(deduplicated_dataframe', c)
                       /\ deduplicated_dataframe'.data[c] =
                              deduplicated_dataframe.data[c]
      ]_vars

\* C12 witness: a strict merge has changed its sink and removed its source,
\* the third column is in the result with its input values, and the matrix
\* that was passed still has its three columns.
C12_Witness ==
    /\ mode = "strict"
    /\ pc = "loop"
    /\ pair # <<>>
    /\ Len(dataframe.columns) = 3
    /\ Len(deduplicated_dataframe.columns) = 2
    /\ HasColumn(deduplicated_dataframe, pair[2])
    /\ deduplicated_dataframe.data[pair[2]] # dataframe.data[pair[2]]
    /\ \E c \in ColumnSet(deduplicated_dataframe) \ {pair[2]} :
          /\ deduplicated_dataframe.data[c] = dataframe.data[c]
          /\ \E i \in DOMAIN dataframe.data[c] : dataframe.data[c][i] > 0

(***************************************************************************)
(* retrieve_clusters: attaching the scores (lines 677-690)                 *)
(*                                                                         *)
(* A frame is the sequence of its columns, left to right; a column is      *)
(* [name, holds]: its label, and what its cells hold for every row.  The   *)
(* rows of scores_pca are the rows of Dataframe_filtered in order, and     *)
(* reset_index() gives the left frame the same 0..n-1 index as             *)
(* pd.DataFrame(scores_pca), so concat(axis=1) lines the rows up; only     *)
(* the columns need to be followed.                                        *)
(***************************************************************************)
MaxComponents == 4     \* most tag columns, and largest k80, generated

\* The variables of the deduplication functions are not in use.
DedupNotUsed ==
    /\ dataframe = NotUsed /\ deduplicated_dataframe = NotUsed
    /\ mode = NotUsed /\ pair = NotUsed
    /\ tuples = NotUsed /\ position = NotUsed /\ answer = NotUsed /\ printed = NotUsed
    /\ word_list = NotUsed /\ returned = NotUsed /\ rerun = NotUsed
    /\ OrchNotUsed

Column(name, holds) == [name |-> name, holds |-> holds]
TagColumn(tag) == Column(tag, <<"tag", tag>>)
\* the score on principal component c (1-indexed)
ScoreOn(c) == <<"score", c>>
Labels == <<"kmeans_pca.labels_">>
Titles == <<"index">>

\* str(n) of a column label 0..9 (pd.DataFrame(ndarray) labels columns 0, 1, ...)
Digits == <<"0", "1", "2", "3", "4", "5", "6", "7", "8", "9">>
RangeLabel(n) == Digits[n + 1]

\* The filtered matrices: distinct tag columns, in any order.
FilteredColumns ==
    {[i \in DOMAIN tags |-> TagColumn(tags[i])] :
        tags \in {g \in TagLists(1, MaxComponents) : Distinct(g)}}

HasName(frame, name) == \E i \in DOMAIN frame : frame[i].name = name

\* frame[name] = values: the column of that name is assigned, a new column
\* is appended when no column has the name.
AssignColumn(frame, name, holds) ==
    IF HasName(frame, name)
    THEN [i \in DOMAIN frame |->
             IF frame[i].name = name THEN Column(name, holds) ELSE frame[i]]
    ELSE Append(frame, Column(name, holds))

\* frame.columns.values[-3:] = names: the labels of the last three columns
RenameLastThree(frame, names) ==
    [i \in DOMAIN frame |->
        IF i > Len(frame) - 3
        THEN Column(names[i - (Len(frame) - 3)], frame[i].holds)
        ELSE frame[i]]

\* What lines 677-690 leave alone.
clustersRest == <<mergerVars, manualVars, conjVars, orchVars, filtered_dataframe,
                  explained_variance_ratio, cumulative_variance,
                  num_components_for_80_variance, num_components_for_95_variance>>

\* plot_pca_tags has returned k80; PCA(k80) can be fitted when k80 is at most
\* the number of columns.
ClustersInit ==
    /\ pc = "pca"
    /\ Dataframe_filtered \in FilteredColumns
    /\ num_components_for_80_variance \in 1..Len(Dataframe_filtered)
    /\ scores_pca = <<>>
    /\ Dataframe_filtered_kmeans = <<>>
    /\ explained_variance_ratio = NotUsed /\ cumulative_variance = NotUsed
    /\ num_components_for_95_variance = NotUsed
    /\ DedupNotUsed

\* pca = PCA(k80); pca.fit(...); scores_pca = pca.transform(Dataframe_filtered)
ClustersTransform ==
    /\ pc = "pca"
    /\ scores_pca' = [c \in 1..num_components_for_80_variance |->
                         Column(RangeLabel(c - 1), ScoreOn(c))]
    /\ pc' = "transformed"
    /\ UNCHANGED <<Dataframe_filtered, Dataframe_filtered_kmeans, clustersRest>>

\* Dataframe_filtered['Cluster'] = kmeans_pca.labels_
ClustersLabel ==
    /\ pc = "transformed"
    /\ Dataframe_filtered' = AssignColumn(Dataframe_filtered, "Cluster", Labels)
    /\ pc' = "labelled"
    /\ UNCHANGED <<scores_pca, Dataframe_filtered_kmeans, clustersRest>>

\* pd.concat([Dataframe_filtered.reset_index(), pd.DataFrame(scores_pca)], axis=1)
ClustersConcat ==
    /\ pc = "labelled"
    /\ Dataframe_filtered_kmeans' =
           <<Column("index", Titles)>> \o Dataframe_filtered \o scores_pca
    /\ pc' = "concatenated"
    /\ UNCHANGED <<Dataframe_filtered, scores_pca, clustersRest>>

\* columns.values[-3:] = ['component 1', 'component 2', 'component 3']
ClustersRename ==
    /\ pc = "concatenated"
    /\ Dataframe_filtered_kmeans' =
           RenameLastThree(Dataframe_filtered_kmeans,
                           <<"component 1", "component 2", "component 3">>)
    /\ pc' = "renamed"
    /\ UNCHANGED <<Dataframe_filtered, scores_pca, clustersRest>>

\* Dataframe_filtered_kmeans['Cluster'] = kmeans_pca.labels_; return
ClustersReturn ==
    /\ pc = "renamed"
    /\ Dataframe_filtered_kmeans' =
           AssignColumn(Dataframe_filtered_kmeans, "Cluster", Labels)
    /\ pc' = "returned"
    /\ UNCHANGED <<Dataframe_filtered, scores_pca, clustersRest>>

ClustersNext ==
    \/ ClustersTransform
    \/ ClustersLabel
    \/ ClustersConcat
    \/ ClustersRename
    \/ ClustersReturn

SpecClusters == ClustersInit /\ [][ClustersNext]_vars

\* C13: in the returned frame, for every k80, the columns 'component 1',
\* 'component 2', 'component 3' hold the scores on principal components 1, 2
\* and 3, and no tag column and not the 'Cluster' column was renamed or
\* overwritten for them: every tag column is there under its name with its
\* values, and the column of labels attached before the concatenation is
\* still called 'Cluster'.
C13_FirstThreeScoresAttached ==
    pc = "returned" =>
        /\ \A c \in 1..3 :
              \E i \in DOMAIN Dataframe_filtered_kmeans :
                  Dataframe_filtered_kmeans[i] =
                      Column(<<"component 1", "component 2", "component 3">>[c],
                             ScoreOn(c))
        /\ \A i \in DOMAIN Dataframe_filtered :
              Dataframe_filtered_kmeans[i + 1] = Dataframe_filtered[i]

\* What the code does for k80 = 3, the one count for which the last three
\* columns of the concatenated frame are the three scores.
C13_ThreeComponentsAttached ==
    (pc = "returned" /\ num_components_for_80_variance = 3)
    => /\ Len(Dataframe_filtered_kmeans) = Len(Dataframe_filtered) + 4
       /\ \A c \in 1..3 :
             Dataframe_filtered_kmeans[Len(Dataframe_filtered) + 1 + c] =
                 Column(<<"component 1", "component 2", "component 3">>[c], ScoreOn(c))

(***************************************************************************)
(* plot_pca_tags: the component counts for 80% and 95% of the variance     *)
(* (lines 357-360).  Ratios are counted in hundredths.                     *)
(***************************************************************************)
Threshold80 == 80     \* cumulative_variance >= 0.80
Threshold95 == 95     \* cumulative_variance >= 0.95

\* Vectors of non-negative ratios, among them the non-increasing ones of sum
\* 100 that a PCA over all components gives (80, 15, 5 or 40, 40, 15, 5).
RatioValues == {0, 5, 15, 40, 80}
RatioVectors == UNION {[1..n -> RatioValues] : n \in 1..MaxComponents}

\* np.cumsum(a)
RECURSIVE CumSum(_)
CumSum(a) ==
    IF a = <<>> THEN <<>>
    ELSE LET front == CumSum(SubSeq(a, 1, Len(a) - 1))
         IN  Append(front, (IF front = <<>> THEN 0 ELSE front[Len(front)]) + a[Len(a)])

\* A plausible slip: > for >=.
ReachedStrictly(cumulative, threshold) ==
    [i \in DOMAIN cumulative |-> cumulative[i] > threshold]

\* cumulative_variance >= threshold, element by element
Reached(cumulative, threshold) ==
    [i \in DOMAIN cumulative |-> cumulative[i] >= threshold]

\* np.argmax of an array of booleans: the 0-based index of the first True,
\* and 0 when no element is True (False is then the maximum, first at 0).
ArgMax(flags) ==
    LET true == {i \in DOMAIN flags : flags[i]}
    IN  IF true = {} THEN 0
        ELSE (CHOOSE i \in true : \A j \in true : i <= j) - 1

VarianceInit ==
    /\ pc = "fitted"
    /\ explained_variance_ratio \in RatioVectors
    /\ cumulative_variance = <<>>
    /\ num_components_for_80_variance = 0
    /\ num_components_for_95_variance = 0
    /\ Dataframe_filtered = NotUsed /\ scores_pca = NotUsed
    /\ Dataframe_filtered_kmeans = NotUsed
    /\ DedupNotUsed

\* What lines 357-360 leave alone.
varianceRest == <<mergerVars, manualVars, conjVars, orchVars, filtered_dataframe,
                  explained_variance_ratio, Dataframe_filtered, scores_pca,
                  Dataframe_filtered_kmeans>>

\* cumulative_variance = np.cumsum(explained_variance_ratio)
VarianceCumSum ==
    /\ pc = "fitted"
    /\ cumulative_variance' = CumSum(explained_variance_ratio)
    /\ pc' = "summed"
    /\ UNCHANGED <<num_components_for_80_variance, num_components_for_95_variance,
                   varianceRest>>

\* np.argmax(cumulative_variance >= 0.80) + 1, and the same for 0.95
VarianceSearch ==
    /\ pc = "summed"
    /\ num_components_for_80_variance' =
           ArgMax(Reached(cumulative_variance, Threshold80)) + 1
    /\ num_components_for_95_variance' =
           ArgMax(Reached(cumulative_variance, Threshold95)) + 1
    /\ pc' = "searched"
    /\ UNCHANGED <<cumulative_variance, varianceRest>>

VarianceNext == VarianceCumSum \/ VarianceSearch

SpecVariance == VarianceInit /\ [][VarianceNext]_vars

NonDecreasing(a) == \A i \in 1..(Len(a) - 1) : a[i] <= a[i + 1]

\* k is the smallest 1-indexed count whose cumulative variance reaches the
\* threshold.
SmallestReaching(cumulative, threshold, k) ==
    /\ k \in DOMAIN cumulative
    /\ cumulative[k] >= threshold
    /\ \A c \in 1..(k - 1) : cumulative[c] < threshold

UnorderedPairs(pairs) == {{pairs[k][1], pairs[k][2]} : k \in DOMAIN pairs}

\* a is a leading substring of b, a tag other than a.
IsLeadingSubstring(a, b) ==
    /\ a # b
    /\ Len(a) <= Len(b)
    /\ SubSeq(b, 1, Len(a)) = a

\* The tags of a group that are a leading substring of no other tag of it.
StemFree(group) ==
    {group[i] : i \in {i \in DOMAIN group :
                          \A j \in DOMAIN group : ~IsLeadingSubstring(group[i], group[j])}}

\* C15 as stated: the potential duplicates hold, for every group found on the
\* phase-1 result, every unordered pair of distinct tags of the group, the
\* pairs of a tag with a tag it is a leading substring of included.
C15_AllPairsOfEveryGroup ==
    AfterPhase2 =>
        \A g \in DOMAIN grouped_tags_control :
            \A i, j \in DOMAIN grouped_tags_control[g] :
                i < j => {grouped_tags_control[g][i], grouped_tags_control[g][j]}
                             \in UnorderedPairs(potential_duplicates)

\* C15 (amended): the groups found on the phase-1 result are collapsed by
\* deduplicate_tag_conjugations first, so the potential duplicates hold, each
\* once, exactly the unordered pairs of distinct tags of a group of which
\* neither is a leading substring of another tag of the group; every pair with
\* a tag that is a leading substring of a tag of its group is left out.
C15_PairsOfCollapsedGroups ==
    AfterPhase2 =>
        LET expected ==
                UNION {{{a, b} : <<a, b>> \in
                           {p \in StemFree(grouped_tags_control[g])
                                  \X StemFree(grouped_tags_control[g]) : p[1] # p[2]}} :
                       g \in DOMAIN grouped_tags_control}
        IN  /\ UnorderedPairs(potential_duplicates) = expected
            /\ Len(potential_duplicates) = Cardinality(expected)

\* C15 witness: phase 2 found grow, growth and grew in one group, and the
\* only potential duplicate is (growth, grew): both pairs of grow are missing.
C15_Witness ==
    /\ pc = "phase 2 done"
    /\ Len(grouped_tags_control) = 1
    /\ {grouped_tags_control[1][i] : i \in DOMAIN grouped_tags_control[1]}
           = {"grow", "growth", "grew"}
    /\ potential_duplicates = <<<<"growth", "grew">>>>

(***************************************************************************)
(* Phase 1 on any grouping: the pairs of deduplicate_tag_conjugations and  *)
(* their strict merge, one iteration of deduplicate_dataframe at a time    *)
(* (lines 248-251 and 143-165).                                            *)
(***************************************************************************)
VocabularyColumns == <<"gr", "grow", "grew", "grows", "growth">>

\* Matrices over these columns without an all-zero column: a column holds the
\* vector v, or v read backwards, in turn.
Reversed(v) == [i \in DOMAIN v |-> v[Len(v) + 1 - i]]
Phase1Matrices ==
    {[columns |-> VocabularyColumns,
      data |-> [c \in Vocabulary |->
                   IF c \in {"gr", "grew", "growth"} THEN v ELSE Reversed(v)]] :
        v \in {v \in Vectors : \E i \in RowIndex : v[i] > 0}}

\* What the first phase leaves alone.
phase1Rest == <<manual, grouped_tags_control, potential_duplicates,
                matrix_deduplicated_lenient, remaining_duplicate_tuple,
                matrix_deduplicated_manual, tuples, answer, printed, conjVars,
                filtered_dataframe, pcaVars>>

\* matrix has no all-zero column and grouped_tags are groups of its columns.
Phase1Init ==
    /\ pc = "phase 1"
    /\ matrix \in Phase1Matrices
    /\ grouped_tags \in GroupLists
    /\ deduplicated_tags = <<>>
    /\ matrix_deduplicated = NotUsed
    /\ manual = NotUsed /\ grouped_tags_control = NotUsed
    /\ potential_duplicates = NotUsed /\ matrix_deduplicated_lenient = NotUsed
    /\ remaining_duplicate_tuple = NotUsed /\ matrix_deduplicated_manual = NotUsed
    /\ dataframe = NotUsed /\ deduplicated_dataframe = NotUsed
    /\ mode = NotUsed /\ pair = <<>> /\ position = 0
    /\ tuples = NotUsed /\ answer = NotUsed /\ printed = NotUsed
    /\ word_list = NotUsed /\ returned = NotUsed /\ rerun = NotUsed
    /\ filtered_dataframe = NotUsed
    /\ PcaNotUsed

\* deduplicated_tags = calculate_tag_similarity(matrix, "pairs", threshold)[0],
\* and the call deduplicate_dataframe(matrix, deduplicated_tags, "strict") up
\* to its loop.
Phase1Pairs ==
    /\ pc = "phase 1"
    /\ deduplicated_tags' \in CalculateTagSimilarity(grouped_tags, "pairs")
    /\ dataframe' = matrix
    /\ deduplicated_dataframe' = matrix        \* dataframe.copy()
    /\ mode' = "strict"
    /\ pc' = "loop"
    /\ UNCHANGED <<matrix, grouped_tags, matrix_deduplicated, pair, position, phase1Rest>>

\* One iteration of `for pair in pairs_list`, for the pair after position.
Phase1Iterate ==
    /\ pc = "loop"
    /\ position < Len(deduplicated_tags)
    /\ position' = position + 1
    /\ pair' = deduplicated_tags[position + 1]
    /\ IF PairSkipped(deduplicated_dataframe, pair'[1], pair'[2])
       THEN /\ pc' = "loop"
            /\ UNCHANGED deduplicated_dataframe
       ELSE IF ~HasColumn(deduplicated_dataframe, pair'[1])
               \/ ~HasColumn(deduplicated_dataframe, pair'[2])
       THEN /\ pc' = "KeyError"     \* deduplicated_dataframe[missing]
            /\ UNCHANGED deduplicated_dataframe
       ELSE /\ pc' = "loop"
            /\ deduplicated_dataframe' =
                   MergePair(deduplicated_dataframe, pair'[1], pair'[2], mode)
    /\ UNCHANGED <<matrix, grouped_tags, deduplicated_tags, matrix_deduplicated,
                   dataframe, mode, phase1Rest>>

\* return deduplicated_dataframe; matrix_deduplicated = ...
Phase1Return ==
    /\ pc = "loop"
    /\ position = Len(deduplicated_tags)
    /\ matrix_deduplicated' = deduplicated_dataframe
    /\ pc' = "phase 1 done"
    /\ UNCHANGED <<matrix, grouped_tags, deduplicated_tags, mergerVars, position,
                   phase1Rest>>

Phase1Next == Phase1Pairs \/ Phase1Iterate \/ Phase1Return

SpecPhase1 == Phase1Init /\ [][Phase1Next]_vars

\* The sources and the sinks of a pair list.
Sources(pairs) == {pairs[k][1] : k \in DOMAIN pairs}
Sinks(pairs) == {pairs[k][2] : k \in DOMAIN pairs}

\* C16: for disjoint groups of distinct tags, every pair of pairs mode has a
\* source that is a strict leading substring of its sink and of the sink's
\* group, no tag is the source of two pairs, and no sink is a source; hence
\* no iteration of the phase-1 strict merge skips its pair for a missing
\* column, and the columns the merge removes are exactly the pair sources.
C16_PairsWellFormedMergeNeverSkips ==
    [][/\ pc' = "loop" =>
             /\ \A k \in DOMAIN deduplicated_tags' :
                   LET source == deduplicated_tags'[k][1]
                       sink == deduplicated_tags'[k][2]
                   IN  /\ IsLeadingSubstring(source, sink)
                       /\ Len(source) < Len(sink)
                       /\ \E g \in DOMAIN grouped_tags :
                             /\ \E i \in DOMAIN grouped_tags[g] :
                                   grouped_tags[g][i] = source
                             /\ \E i \in DOMAIN grouped_tags[g] :
                                   grouped_tags[g][i] = sink
             /\ \A k, l \in DOMAIN deduplicated_tags' :
                   k # l => deduplicated_tags'[k][1] # deduplicated_tags'[l][1]
             /\ Sources(deduplicated_tags') \cap Sinks(deduplicated_tags') = {}
       /\ (pc = "loop" /\ position' # position) =>
             /\ HasColumn(deduplicated_dataframe, pair'[1])
             /\ HasColumn(deduplicated_dataframe, pair'[2])
             /\ pc' = "loop"
             /\ ColumnSet(deduplicated_dataframe') =
                    ColumnSet(deduplicated_dataframe) \ {pair'[1]}
       /\ pc' = "phase 1 done" =>
             ColumnSet(matrix_deduplicated') =
                 ColumnSet(matrix) \ Sources(deduplicated_tags)
      ]_vars

\* C16 witness: two groups gave a pair each, one source had two accepted tags
\* to choose its sink from, and the strict merge of the two pairs has returned.
C16_Witness ==
    /\ pc = "phase 1 done"
    /\ Len(grouped_tags) = 2
    /\ Len(deduplicated_tags) = 2
    /\ Len(matrix_deduplicated.columns) = 3
    /\ \E k \in DOMAIN deduplicated_tags :
          /\ deduplicated_tags[k][1] = "gr"
          /\ \E g \in DOMAIN grouped_tags :
                {grouped_tags[g][i] : i \in DOMAIN grouped_tags[g]}
                    = {"gr", "grew", "grows"}

====
